---------------------------- MODULE Spec2Model ----------------------------
(***************************************************************************)
(* Model of the self-hosted OTA update proof of concept:                   *)
(*   - local-system/api-server/api.js : GET /check, the "gatekeeper"       *)
(*   - local-system/cdn-server/cdn.js : /files behind secureGuard          *)
(*   - the storage directory both servers share, written by a deployment   *)
(*   - OtaPoc/deploy.js : one run of the deployment script, step by step   *)
(*   - OtaPoc/App.tsx : checkUpdate, from the button to the restart        *)
(*   - the client that follows the signed URL it was given                 *)
(*                                                                         *)
(* Strings that the code takes apart (URLs, query strings) are sequences   *)
(* of symbols: path segments and words are one symbol each, and the        *)
(* delimiters "/", "?", "&", "=" are symbols of their own.  Percent        *)
(* encoding is not modelled.                                               *)
(***************************************************************************)
EXTENDS Integers, Sequences, FiniteSets

(* ------------------------------ bounds -------------------------------- *)

\* Release versions are 1..MaxVersion (the code has semantic version strings).
MaxVersion == 2
\* Distinct bundle contents a deployment can produce are 1..MaxContent.
MaxContent == 2
\* The clock runs 0..MaxClock.
MaxClock == 2
\* Grant lifetimes considered by the expiry claim are 1..MaxTTL clock ticks.
MaxTTL == 1
\* The app is followed through MaxReloads restarts.
MaxReloads == 1

(* --------------------------- input alphabets -------------------------- *)

Platforms == {"android", "ios"}
Clients == {"app", "browser"}

\* A header that the request does not carry (req.headers[x] === undefined).
NoHeader == "<absent>"

\* api.js:18
ValidCredential == "Bearer my-secret-user"
AuthHeaders == {NoHeader, ValidCredential, "Bearer someone-else"}

\* x-app-platform values tried; "" is falsy in `|| 'android'`, and the last
\* one is a relative path.
PlatformHeaders == {NoHeader, "", "android", "ios", "android/../ios"}

\* Installed version a caller may state (0: not stated).
InstalledVersions == 0..MaxVersion

Methods == {"GET", "POST", "OPTIONS"}

(* ------------------------- strings as symbols ------------------------- *)

\* Index of the first occurrence of symbol d in s at or after i, 0 when there
\* is none.
RECURSIVE IndexFrom(_, _, _)
IndexFrom(s, d, i) ==
    IF i > Len(s) THEN 0
    ELSE IF s[i] = d THEN i
    ELSE IndexFrom(s, d, i + 1)

\* String.prototype.indexOf, counting from 1.
IndexOf(s, d) == IndexFrom(s, d, 1)

\* String.prototype.split(d): the pieces of s between occurrences of d.
RECURSIVE Split(_, _)
Split(s, d) ==
    LET i == IndexOf(s, d)
    IN  IF i = 0 THEN <<s>>
        ELSE <<SubSeq(s, 1, i - 1)>> \o Split(SubSeq(s, i + 1, Len(s)), d)

\* The pieces that are not empty, in order.
RECURSIVE NonEmpty(_)
NonEmpty(ss) ==
    IF ss = <<>> THEN <<>>
    ELSE IF Head(ss) = <<>> THEN NonEmpty(Tail(ss))
    ELSE <<Head(ss)>> \o NonEmpty(Tail(ss))


(* ------------------------------- URLs --------------------------------- *)

\* deploy.js:58 and POC_INSTRUCTIONS: the CDN as the emulator reaches it.
CdnOrigin == "http://10.0.2.2:4000"

\* The request target of a URL: what follows the origin.
TargetOf(url) == IF url # <<>> /\ Head(url) = CdnOrigin THEN Tail(url) ELSE url

\* Node/Express: the path is what precedes the first "?", the query string
\* what follows it.
PathOf(target) ==
    LET i == IndexOf(target, "?")
    IN  IF i = 0 THEN target ELSE SubSeq(target, 1, i - 1)

QueryStringOf(target) ==
    LET i == IndexOf(target, "?")
    IN  IF i = 0 THEN <<>> ELSE SubSeq(target, i + 1, Len(target))

\* The path's segments (each is one symbol), and whether it ends in "/".
NotSlash(x) == x # "/"
Segments(path) == SelectSeq(path, NotSlash)
TrailingSlash(path) == path # <<>> /\ path[Len(path)] = "/"

\* One "k=v" piece of a query string: the key precedes the first "=", the
\* value is all that follows it ("" when there is no "=").
ParamKey(piece) ==
    LET i == IndexOf(piece, "=")
    IN  IF i = 0 THEN piece ELSE SubSeq(piece, 1, i - 1)

ParamValue(piece) ==
    LET i == IndexOf(piece, "=")
    IN  IF i = 0 THEN <<>> ELSE SubSeq(piece, i + 1, Len(piece))

\* The values given for key `name`, in order.
RECURSIVE ValuesOf(_, _)
ValuesOf(pieces, name) ==
    IF pieces = <<>> THEN <<>>
    ELSE (IF ParamKey(Head(pieces)) = <<name>>
          THEN <<ParamValue(Head(pieces))>> ELSE <<>>)
         \o ValuesOf(Tail(pieces), name)

\* req.query[name] as Express's query parser gives it: undefined when the key
\* does not occur, a string when it occurs once, an array when it occurs
\* several times.  vals holds the string(s).
QueryParam(target, name) ==
    LET vals == ValuesOf(NonEmpty(Split(QueryStringOf(target), "&")), name)
    IN  [kind |-> IF Len(vals) = 0 THEN "undefined"
                  ELSE IF Len(vals) = 1 THEN "string" ELSE "array",
         vals |-> vals]

\* A JavaScript string value.
Str(s) == [kind |-> "string", vals |-> <<s>>]

(* ------------------------------ storage ------------------------------- *)

\* A bundle's bytes: 0 when the file is absent, else a content in 1..MaxContent.
Contents == 1..MaxContent

\* crypto.createHash('sha256') of a bundle's bytes (collision-free).
Sha256(c) == <<"sha256", c>>

\* deploy.js:58: the bundle URL a deployment writes for platform p.
BundleUrl(p) == <<CdnOrigin, "/", "files", "/", p, "/", "update.zip">>

\* The fileUrl values a metadata record of platform p holds in this model: the
\* deployed one, and (android) one that carries a cache-busting query string.
FileUrls(p) ==
    {BundleUrl(p)} \cup
    (IF p = "android" THEN {BundleUrl(p) \o <<"?", "v", "=", "1">>} ELSE {})

\* deploy.js:55-62: the metadata record of a release.
MetaRecord(version, url, hash) ==
    [id |-> <<"v", version>>, version |-> version, fileUrl |-> url,
     fileHash |-> hash, status |-> "UPDATE", force |-> FALSE]

MetaRecords(p) ==
    {MetaRecord(v, u, Sha256(c)) :
        v \in 1..MaxVersion, u \in FileUrls(p), c \in Contents}

NoRecord ==
    [id |-> <<>>, version |-> 0, fileUrl |-> <<>>, fileHash |-> <<>>,
     status |-> "", force |-> FALSE]

\* <platform>/metadata.json: absent, a file that readFileSync cannot read or
\* whose text JSON.parse rejects, or the JSON text of a record.
AbsentMeta == [state |-> "absent", rec |-> NoRecord]
CorruptMeta == [state |-> "corrupt", rec |-> NoRecord]
JsonMeta(r) == [state |-> "json", rec |-> r]


(* ------------------------------- state -------------------------------- *)

VARIABLES
    bundles,    \* storage/<platform>/update.zip: 0 (absent) or its content
    metadata,   \* storage/<platform>/metadata.json
    last,       \* the most recent HTTP exchange, with what its handler did
    issuedTo,   \* the clients to whom /check has returned a signed URL
    denials,    \* the (status, body) pairs answered to refused GETs of /files
    now,        \* the clock
    deploy,     \* the run of deploy.js: its position and its locals
    app         \* the app: the state of App and of its checkUpdate call

vars == <<bundles, metadata, last, issuedTo, denials, now, deploy, app>>

\* The segments between the "/" of a platform name.
NameSegments(name) ==
    IF name = "android/../ios" THEN <<"android", "..", "ios">> ELSE <<name>>

\* api.js:24: path.join normalises what it joins: "" and "." are dropped and
\* ".." removes the segment before it (and stays when there is none).  segs
\* is what was joined, acc the normalised path so far.
RECURSIVE pathJoin(_, _)
pathJoin(segs, acc) ==
    IF segs = <<>> THEN acc
    ELSE IF Head(segs) \in {"", "."} THEN pathJoin(Tail(segs), acc)
    ELSE IF Head(segs) = ".." /\ acc # <<>> /\ acc[Len(acc)] # ".."
         THEN pathJoin(Tail(segs), SubSeq(acc, 1, Len(acc) - 1))
    ELSE pathJoin(Tail(segs), Append(acc, Head(segs)))

\* api.js:24-32: the metadata.json at path.join(STORAGE_PATH, p,
\* 'metadata.json'); storage holds one directory per platform and nothing
\* else.
MetaAt(p) ==
    LET dir == pathJoin(NameSegments(p), <<>>)
    IN  IF Len(dir) = 1 /\ dir[1] \in Platforms
        THEN metadata[dir[1]] ELSE AbsentMeta

(* ------------------------- CDN server (cdn.js) ------------------------ *)

\* cdn.js:12 and api.js:38
SecureSignature == "secure-signature"

NoBody == [kind |-> "empty", text |-> "", obj |-> <<>>, data |-> 0, meta |-> AbsentMeta]
TextBody(t) == [NoBody EXCEPT !.kind = "text", !.text = t]
\* express.static streaming the file at storage path obj.
FileBody(obj) ==
    [NoBody EXCEPT !.kind = "bytes", !.obj = obj,
        !.data = IF obj[2] = "update.zip" THEN bundles[obj[1]] ELSE 0,
        !.meta = IF obj[2] = "metadata.json" THEN metadata[obj[1]] ELSE AbsentMeta]

\* What a middleware does with a request: answer it, or call next().
CallNext == [done |-> FALSE, status |-> 0, body |-> NoBody]
Answer(status, body) == [done |-> TRUE, status |-> status, body |-> body]

\* cdn.js:6: cors() answers a preflight itself (204, no body) and passes
\* every other request on.
corsMw(req) ==
    IF req.method = "OPTIONS" THEN Answer(204, NoBody) ELSE CallNext

\* A guard that takes a token for a target once: it refuses the request that
\* was just served.
secureGuardSingleUse(req) ==
    LET token == QueryParam(req.target, "token")
    IN  IF token # Str(<<SecureSignature>>)
        THEN Answer(403, TextBody("Forbidden: Invalid Signature"))
        ELSE IF last.server = "cdn" /\ last.status = 200
                /\ last.target = req.target
        THEN Answer(403, TextBody("Forbidden: Invalid Signature"))
        ELSE CallNext

\* A guard that tells a missing token from a wrong one.
secureGuardWrongBody(req) ==
    LET token == QueryParam(req.target, "token")
    IN  IF token # Str(<<SecureSignature>>)
        THEN Answer(403, TextBody(IF token.kind = "undefined"
                                  THEN "Forbidden: Missing Signature"
                                  ELSE "Forbidden: Invalid Signature"))
        ELSE CallNext

\* A guard that looks at the first value of a repeated parameter.
secureGuardLoose(req) ==
    LET token == QueryParam(req.target, "token")
    IN  IF token.kind = "undefined" \/ token.vals[1] # <<SecureSignature>>
        THEN Answer(403, TextBody("Forbidden: Invalid Signature"))
        ELSE CallNext

\* cdn.js:10-18
secureGuard(req) ==
    LET token == QueryParam(req.target, "token")
    IN  IF token # Str(<<SecureSignature>>)
        THEN Answer(403, TextBody("Forbidden: Invalid Signature"))
        ELSE CallNext

\* The storage directory as express.static sees it below its root.
IsFile(obj) ==
    /\ Len(obj) = 2
    /\ obj[1] \in Platforms
    /\ \/ obj[2] = "update.zip" /\ bundles[obj[1]] # 0
       \/ obj[2] = "metadata.json" /\ metadata[obj[1]].state # "absent"

\* storage/ and storage/android exist from the setup (mkdir -p); another
\* platform's directory exists once it holds a file.
IsDirectory(obj) ==
    \/ obj = <<>>
    \/ obj = <<"android">>
    \/ /\ Len(obj) = 1
       /\ obj[1] \in Platforms
       /\ (bundles[obj[1]] # 0 \/ metadata[obj[1]].state # "absent")

\* A file server that, like an object store without list permission, answers
\* a missing file 403.
staticMissingIsForbidden(req, obj) ==
    IF req.method # "GET" THEN CallNext
    ELSE IF ".." \in {obj[i] : i \in 1..Len(obj)} THEN CallNext
    ELSE IF IsFile(obj) /\ ~TrailingSlash(PathOf(req.target))
         THEN Answer(200, FileBody(obj))
    ELSE IF IsDirectory(obj) /\ ~TrailingSlash(PathOf(req.target))
         THEN Answer(301, TextBody("Redirecting"))
    ELSE Answer(403, TextBody("AccessDenied"))

\* cdn.js:21: express.static(storage) with its defaults.  It serves GET (and
\* HEAD) only; a file is streamed; a directory without a trailing slash is
\* redirected to the slash, and with one is looked up for index.html, which
\* this storage never holds; everything else falls through to next().
\* `obj` is the path below the mount point.
static(req, obj) ==
    IF req.method # "GET" THEN CallNext
    ELSE IF ".." \in {obj[i] : i \in 1..Len(obj)} THEN CallNext
    ELSE IF IsFile(obj) /\ ~TrailingSlash(PathOf(req.target))
         THEN Answer(200, FileBody(obj))
    ELSE IF IsDirectory(obj) /\ ~TrailingSlash(PathOf(req.target))
         THEN Answer(301, TextBody("Redirecting"))
    ELSE CallNext

\* A stack that serves before it guards.
StackUnguarded ==
    << [mount |-> <<>>, fn |-> "cors"],
       [mount |-> <<"files">>, fn |-> "static"],
       [mount |-> <<"files">>, fn |-> "secureGuard"] >>

\* cdn.js:6-21: the middleware stack, in the order of the app.use calls.
Stack ==
    << [mount |-> <<>>, fn |-> "cors"],
       [mount |-> <<"files">>, fn |-> "secureGuard"],
       [mount |-> <<"files">>, fn |-> "static"] >>

\* app.use(mount, fn) runs fn for the paths that begin with mount.
Mounted(layer, segs) ==
    /\ Len(segs) >= Len(layer.mount)
    /\ SubSeq(segs, 1, Len(layer.mount)) = layer.mount

RunLayer(layer, req, segs) ==
    LET obj == SubSeq(segs, Len(layer.mount) + 1, Len(segs))
    IN  CASE layer.fn = "cors" -> corsMw(req)
          [] layer.fn = "secureGuard" -> secureGuard(req)
          [] layer.fn = "static" -> static(req, obj)

\* Express's router: each matching layer in turn until one answers; when none
\* does, the final handler answers 404 "Cannot <METHOD> <path>".
\* trace lists the middleware that ran.
RECURSIVE Dispatch(_, _, _)
Dispatch(stack, req, trace) ==
    IF stack = <<>>
    THEN [status |-> 404, body |-> TextBody("Cannot"), trace |-> trace]
    ELSE LET layer == Head(stack)
             segs == Segments(PathOf(req.target))
         IN  IF ~Mounted(layer, segs) THEN Dispatch(Tail(stack), req, trace)
             ELSE LET r == RunLayer(layer, req, segs)
                      t == Append(trace, layer.fn)
                  IN  IF r.done
                      THEN [status |-> r.status, body |-> r.body, trace |-> t]
                      ELSE Dispatch(Tail(stack), req, t)

\* The CDN's answer to a request.
CdnHandle(req) == Dispatch(Stack, req, <<>>)

(* ------------------------- API server (api.js) ------------------------ *)

NoJson == [json |-> "none", error |-> "", rec |-> NoRecord]
ErrorJson(e) == [NoJson EXCEPT !.json = "error", !.error = e]
\* { update: false }
NoUpdateJson == [NoJson EXCEPT !.json = "noUpdate"]
MetadataJson(r) == [NoJson EXCEPT !.json = "metadata", !.rec = r]

\* api.js:38: `${metadata.fileUrl}?token=secure-signature`
signedUrl(rec) == rec.fileUrl \o <<"?", "token", "=", SecureSignature>>

\* api.js:23: req.headers['x-app-platform'] || 'android'
platformOf(hdr) == IF hdr \in {NoHeader, ""} THEN "android" ELSE hdr

\* A /check that reports a missing metadata file as an error.
checkAbsentIsError(req) ==
    IF req.auth # ValidCredential
    THEN [status |-> 401, body |-> ErrorJson("Unauthorized"), reads |-> {}]
    ELSE LET m == MetaAt(platformOf(req.platformHdr))
         IN  IF m.state = "absent"
             THEN [status |-> 404, body |-> ErrorJson("Not Found"),
                   reads |-> {"existsSync"}]
             ELSE IF m.state = "corrupt"
             THEN [status |-> 500, body |-> ErrorJson("Internal Server Error"),
                   reads |-> {"existsSync", "readFileSync"}]
             ELSE [status |-> 200,
                   body |-> MetadataJson(
                       [m.rec EXCEPT !.fileUrl = signedUrl(m.rec)]),
                   reads |-> {"existsSync", "readFileSync"}]

\* A /check that answers with the fields a client needs for the download
\* instead of the whole record.
checkSelectedFields(req) ==
    IF req.auth # ValidCredential
    THEN [status |-> 401, body |-> ErrorJson("Unauthorized"), reads |-> {}]
    ELSE LET m == MetaAt(platformOf(req.platformHdr))
         IN  IF m.state = "absent"
             THEN [status |-> 200, body |-> NoUpdateJson,
                   reads |-> {"existsSync"}]
             ELSE IF m.state = "corrupt"
             THEN [status |-> 500, body |-> ErrorJson("Internal Server Error"),
                   reads |-> {"existsSync", "readFileSync"}]
             ELSE [status |-> 200,
                   body |-> MetadataJson(
                       [NoRecord EXCEPT !.version = m.rec.version,
                                        !.fileUrl = signedUrl(m.rec),
                                        !.fileHash = m.rec.fileHash]),
                   reads |-> {"existsSync", "readFileSync"}]

\* A /check that keeps a registry of issued grants and signs one URL only.
checkSingleIssue(req) ==
    IF req.auth # ValidCredential
    THEN [status |-> 401, body |-> ErrorJson("Unauthorized"), reads |-> {}]
    ELSE LET m == MetaAt(platformOf(req.platformHdr))
         IN  IF m.state = "absent" \/ issuedTo # {}
             THEN [status |-> 200, body |-> NoUpdateJson,
                   reads |-> {"existsSync"}]
             ELSE IF m.state = "corrupt"
             THEN [status |-> 500, body |-> ErrorJson("Internal Server Error"),
                   reads |-> {"existsSync", "readFileSync"}]
             ELSE [status |-> 200,
                   body |-> MetadataJson(
                       [m.rec EXCEPT !.fileUrl = signedUrl(m.rec)]),
                   reads |-> {"existsSync", "readFileSync"}]

\* A /check that swallows a read or parse failure and reports no update.
checkHidesFailure(req) ==
    IF req.auth # ValidCredential
    THEN [status |-> 401, body |-> ErrorJson("Unauthorized"), reads |-> {}]
    ELSE LET m == MetaAt(platformOf(req.platformHdr))
         IN  IF m.state \in {"absent", "corrupt"}
             THEN [status |-> 200, body |-> NoUpdateJson,
                   reads |-> IF m.state = "absent" THEN {"existsSync"}
                             ELSE {"existsSync", "readFileSync"}]
             ELSE [status |-> 200,
                   body |-> MetadataJson(
                       [m.rec EXCEPT !.fileUrl = signedUrl(m.rec)]),
                   reads |-> {"existsSync", "readFileSync"}]

\* A /check that skips the credential test.
checkNoAuth(req) ==
    LET m == MetaAt(platformOf(req.platformHdr))
    IN  IF m.state = "absent"
        THEN [status |-> 200, body |-> NoUpdateJson, reads |-> {"existsSync"}]
        ELSE [status |-> 200,
              body |-> MetadataJson([m.rec EXCEPT !.fileUrl = signedUrl(m.rec)]),
              reads |-> {"existsSync", "readFileSync"}]

\* api.js:14-51: GET /check.  reads lists the file-system calls made on
\* metadata.json.
check(req) ==
    IF req.auth # ValidCredential
    THEN [status |-> 401, body |-> ErrorJson("Unauthorized"), reads |-> {}]
    ELSE LET m == MetaAt(platformOf(req.platformHdr))
         IN  IF m.state = "absent"
             THEN [status |-> 200, body |-> NoUpdateJson,
                   reads |-> {"existsSync"}]
             ELSE IF m.state = "corrupt"
             THEN [status |-> 500, body |-> ErrorJson("Internal Server Error"),
                   reads |-> {"existsSync", "readFileSync"}]
             ELSE [status |-> 200,
                   body |-> MetadataJson(
                       [m.rec EXCEPT !.fileUrl = signedUrl(m.rec)]),
                   reads |-> {"existsSync", "readFileSync"}]

(* ----------------------------- exchanges ------------------------------ *)

\* No exchange yet.
Idle ==
    [server |-> "none", client |-> "", at |-> 0, status |-> 0,
     auth |-> NoHeader, platformHdr |-> NoHeader, installed |-> 0,
     api |-> NoJson, reads |-> {},
     method |-> "", target |-> <<>>, cdn |-> NoBody, trace |-> <<>>,
     via |-> "", grantAt |-> 0, grantFor |-> <<>>]

\* Request paths tried against the CDN: the bundle, another platform's
\* bundle, the metadata file, a directory, a file that is not there, and a
\* path outside /files.
BundlePath(p) == <<"/", "files", "/", p, "/", "update.zip">>

PathSamples ==
    { BundlePath("android"),
      BundlePath("ios"),
      <<"/", "files", "/", "android", "/", "metadata.json">>,
      <<"/", "files", "/", "android">>,
      <<"/", "files", "/", "android", "/", "nothing.zip">>,
      <<"/", "update.zip">> }

\* Query strings tried: none, the expected token, an empty one, a wrong one,
\* the expected one twice, after another parameter, and after a second "?".
ValidQuery == <<"?", "token", "=", SecureSignature>>

QuerySamples ==
    { <<>>,
      ValidQuery,
      <<"?", "token", "=">>,
      <<"?", "token", "=", "guess">>,
      <<"?", "token", "=", SecureSignature, "&", "token", "=", SecureSignature>>,
      <<"?", "v", "=", "1", "&", "token", "=", SecureSignature>>,
      <<"?", "v", "=", "1", "?", "token", "=", SecureSignature>> }

Targets == {p \o q : p \in PathSamples, q \in QuerySamples}

\* A GET below /files that does not carry exactly the expected token.
Refused(req) ==
    /\ req.method = "GET"
    /\ Segments(PathOf(req.target)) # <<>>
    /\ Head(Segments(PathOf(req.target))) = "files"
    /\ QueryParam(req.target, "token") # Str(<<SecureSignature>>)

\* The CDN handles a request of client c; via tells how c came by the target.
CdnExchange(c, req, via, grantAt, grantFor) ==
    LET r == CdnHandle(req)
    IN  /\ last' = [Idle EXCEPT !.server = "cdn", !.client = c, !.at = now,
                       !.method = req.method, !.target = req.target,
                       !.status = r.status, !.cdn = r.body, !.trace = r.trace,
                       !.via = via, !.grantAt = grantAt, !.grantFor = grantFor]
        /\ denials' = IF Refused(req)
                      THEN denials \cup {[status |-> r.status, body |-> r.body]}
                      ELSE denials
        /\ UNCHANGED <<bundles, metadata, issuedTo, now, deploy>>

(* ------------------------------ actions ------------------------------- *)

\* api.js:14: the API handles GET /check of caller c.
ApiExchange(c, auth, hdr, installed) ==
    LET req == [auth |-> auth, platformHdr |-> hdr, installed |-> installed]
        r == check(req)
    IN  /\ last' = [Idle EXCEPT !.server = "api", !.client = c, !.at = now,
                       !.auth = auth, !.platformHdr = hdr,
                       !.installed = installed,
                       !.status = r.status, !.api = r.body, !.reads = r.reads]
        /\ issuedTo' = IF r.body.json = "metadata"
                       THEN issuedTo \cup {c} ELSE issuedTo
        /\ UNCHANGED <<bundles, metadata, denials, now, deploy>>

\* A caller's GET /check.
Check(c, auth, hdr, installed) ==
    /\ ApiExchange(c, auth, hdr, installed)
    /\ UNCHANGED app

\* cdn.js:21: any request of any client to the CDN.
CdnRequest(c, method, target) ==
    /\ CdnExchange(c, [method |-> method, target |-> target], "direct", 0, <<>>)
    /\ UNCHANGED app

\* App.tsx:31: the client that was just answered with update metadata
\* downloads from the fileUrl of that answer, unchanged.
Download ==
    /\ last.server = "api"
    /\ last.api.json = "metadata"
    /\ CdnExchange(last.client,
                   [method |-> "GET", target |-> TargetOf(last.api.rec.fileUrl)],
                   "signedUrl", last.at,
                   Segments(PathOf(TargetOf(last.api.rec.fileUrl))))
    /\ UNCHANGED app

\* The client that was just answered with update metadata presents the token
\* of that answer for another path.
Replay(path) ==
    /\ last.server = "api"
    /\ last.api.json = "metadata"
    /\ LET url == TargetOf(last.api.rec.fileUrl)
           token == QueryParam(url, "token")
       IN  /\ token.kind = "string"
           /\ Segments(path) # Segments(PathOf(url))
           /\ CdnExchange(last.client,
                          [method |-> "GET",
                           target |-> path \o <<"?", "token", "=">>
                                           \o token.vals[1]],
                          "replay", last.at, Segments(PathOf(url)))
    /\ UNCHANGED app

\* cdn.js:207-211: the client of the last CDN exchange makes the same request
\* once more (a reload in the browser, a download started again).
Retry ==
    /\ last.server = "cdn"
    /\ CdnExchange(last.client,
                   [method |-> last.method, target |-> last.target],
                   "retry", last.grantAt, last.grantFor)
    /\ UNCHANGED app

\* A deployment puts a bundle into storage/<platform>/ (deploy.js:51).
PutBundle(p, c) ==
    /\ bundles' = [bundles EXCEPT ![p] = c]
    /\ UNCHANGED <<metadata, last, issuedTo, denials, now, deploy, app>>

\* A deployment writes storage/<platform>/metadata.json (deploy.js:64), or an
\* edit leaves it unparseable.
WriteMetadata(p, m) ==
    /\ metadata' = [metadata EXCEPT ![p] = m]
    /\ UNCHANGED <<bundles, last, issuedTo, denials, now, deploy, app>>

\* Time passes.
Tick ==
    /\ now < MaxClock
    /\ now' = now + 1
    /\ UNCHANGED <<bundles, metadata, last, issuedTo, denials, deploy, app>>

(* ------------------------- deploy.js (one run) ------------------------ *)

\* No run yet.  version is process.argv[2] (0: none given), zip the content
\* of dist/update.zip, hash hexHash, before the metadata.json the run found,
\* exit the exit code (-1 while the script has not exited).
NotRun ==
    [pc |-> "idle", version |-> 0, zip |-> 0, hash |-> <<>>,
     before |-> AbsentMeta, exit |-> -1]

\* The positions of a run that has not ended.
Running == {"bundle", "zipped", "hashed", "copied", "writing"}

\* deploy.js:7-11: `node deploy.js <version>`; without a version the script
\* exits with code 1 at once.
DeployStart(v) ==
    /\ deploy.pc \notin Running
    /\ deploy' = IF v = 0
                 THEN [NotRun EXCEPT !.pc = "failed", !.exit = 1,
                                     !.before = metadata["android"]]
                 ELSE [NotRun EXCEPT !.pc = "bundle", !.version = v,
                                     !.before = metadata["android"]]
    /\ UNCHANGED <<bundles, metadata, last, issuedTo, denials, now, app>>

\* deploy.js:31-39: the bundle of the code as it is now (content c) is
\* generated and zipped into dist/update.zip.
ZipBundle(c) ==
    /\ deploy.pc = "bundle"
    /\ deploy' = [deploy EXCEPT !.pc = "zipped", !.zip = c]
    /\ UNCHANGED <<bundles, metadata, last, issuedTo, denials, now, app>>

\* deploy.js:43-46: hexHash of dist/update.zip.
CalculateHash ==
    /\ deploy.pc = "zipped"
    /\ deploy' = [deploy EXCEPT !.pc = "hashed", !.hash = Sha256(deploy.zip)]
    /\ UNCHANGED <<bundles, metadata, last, issuedTo, denials, now, app>>

\* deploy.js:51: copyFileSync(dist/update.zip, storage/android/update.zip).
MoveToCdn ==
    /\ deploy.pc = "hashed"
    /\ bundles' = [bundles EXCEPT !["android"] = deploy.zip]
    /\ deploy' = [deploy EXCEPT !.pc = "copied"]
    /\ UNCHANGED <<metadata, last, issuedTo, denials, now, app>>

\* deploy.js:64: writeFileSync opens metadata.json for writing, which creates
\* it or cuts it to length 0; the text follows in write calls.  Until the
\* last of them the file holds a prefix of the JSON text, which JSON.parse
\* rejects.
OpenMetadata ==
    /\ deploy.pc = "copied"
    /\ metadata' = [metadata EXCEPT !["android"] = CorruptMeta]
    /\ deploy' = [deploy EXCEPT !.pc = "writing"]
    /\ UNCHANGED <<bundles, last, issuedTo, denials, now, app>>

\* deploy.js:55-64: the record is written in full; the script ends (exit
\* code 0).
UpdateMetadata ==
    /\ deploy.pc = "writing"
    /\ metadata' = [metadata EXCEPT !["android"] =
                       JsonMeta(MetaRecord(deploy.version,
                                           BundleUrl("android"), deploy.hash))]
    /\ deploy' = [deploy EXCEPT !.pc = "done", !.exit = 0]
    /\ UNCHANGED <<bundles, last, issuedTo, denials, now, app>>

\* deploy.js:71-74: the step the run was about to make throws (the command
\* fails, a file cannot be read, copied or opened, the disk is full while
\* metadata.json is written); the catch block exits with code 1.
DeployFailed ==
    /\ deploy.pc \in Running
    /\ deploy' = [deploy EXCEPT !.pc = "failed", !.exit = 1]
    /\ UNCHANGED <<bundles, metadata, last, issuedTo, denials, now, app>>

(* --------------------------- the app (App.tsx) ------------------------ *)

\* App.tsx:6-7: the component after a (re)start.  update and applied belong
\* to the checkUpdate call in progress or last made: the value checkForUpdate
\* returned (NoRecord: none) and whether updateBundle completed.  alert says
\* whether the "Update Ready" dialog is on screen; reloads counts the calls of
\* HotUpdater.reload.
AppStart ==
    [pc |-> "idle", status |-> "Idle", loading |-> FALSE,
     update |-> NoRecord, applied |-> FALSE, alert |-> FALSE, reloads |-> 0]

\* An error path that has no finally block: loading is left as it was.
CaughtNoFinally ==
    [app EXCEPT !.pc = "idle", !.status = "Error"]

\* App.tsx:40-45: catch and finally.
Caught ==
    [app EXCEPT !.pc = "idle", !.status = "Error", !.loading = FALSE]

\* App.tsx:64, 14-16: the button (shown while not loading, and covered by
\* the dialog while that is up) starts checkUpdate.
checkUpdate ==
    /\ app.pc = "idle"
    /\ ~app.loading
    /\ ~app.alert
    /\ app' = [app EXCEPT !.pc = "checking", !.loading = TRUE,
                          !.status = "Checking API...",
                          !.update = NoRecord, !.applied = FALSE]
    /\ UNCHANGED <<bundles, metadata, last, issuedTo, denials, now, deploy>>

\* checkUpdate that announces the restart as soon as an update is found.
checkForUpdateAlertsFirst(outcome) ==
    /\ app.pc = "checking"
    /\ ApiExchange("app", ValidCredential, "android", 0)
    /\ outcome = "update" => last'.api.json = "metadata"
    /\ app' = CASE outcome = "update" ->
                     [app EXCEPT !.pc = "downloading", !.alert = TRUE,
                                 !.status = "Found update! Downloading...",
                                 !.update = last'.api.rec]
                [] outcome = "null" ->
                     [app EXCEPT !.pc = "idle", !.loading = FALSE,
                                 !.status = "No update available on server."]
                [] outcome = "throw" -> Caught

\* App.tsx:20-28, 37-45: HotUpdater.checkForUpdate asks the API with the
\* credential of App.tsx:23 and resolves: with an update (only out of a
\* metadata answer), with null, or by throwing.
checkForUpdate(outcome) ==
    /\ app.pc = "checking"
    /\ ApiExchange("app", ValidCredential, "android", 0)
    /\ outcome = "update" => last'.api.json = "metadata"
    /\ app' = CASE outcome = "update" ->
                     [app EXCEPT !.pc = "downloading",
                                 !.status = "Found update! Downloading...",
                                 !.update = last'.api.rec]
                [] outcome = "null" ->
                     [app EXCEPT !.pc = "idle", !.loading = FALSE,
                                 !.status = "No update available on server."]
                [] outcome = "throw" -> Caught

\* App.tsx:31-36, 40-45: update.updateBundle downloads from the fileUrl of
\* the update and completes only with bytes of the announced hash; then the
\* dialog is put up.
updateBundle(outcome) ==
    /\ app.pc = "downloading"
    /\ CdnExchange("app",
                   [method |-> "GET", target |-> TargetOf(app.update.fileUrl)],
                   "updateBundle", 0,
                   Segments(PathOf(TargetOf(app.update.fileUrl))))
    /\ outcome = "ok" => /\ last'.status = 200
                         /\ last'.cdn.kind = "bytes"
                         /\ Sha256(last'.cdn.data) = app.update.fileHash
    /\ app' = CASE outcome = "ok" ->
                     [app EXCEPT !.pc = "idle", !.loading = FALSE,
                                 !.applied = TRUE, !.alert = TRUE,
                                 !.status = "Update applied. Restarting..."]
                [] outcome = "throw" -> Caught

\* App.tsx:34: the user presses OK; HotUpdater.reload restarts the app.
reload ==
    /\ app.alert
    /\ app.pc = "idle"
    /\ app.reloads < MaxReloads
    /\ app' = [AppStart EXCEPT !.reloads = app.reloads + 1]
    /\ UNCHANGED <<bundles, metadata, last, issuedTo, denials, now, deploy>>

Init ==
    /\ bundles = [p \in Platforms |-> 0]
    /\ metadata = [p \in Platforms |-> AbsentMeta]
    /\ last = Idle
    /\ issuedTo = {}
    /\ denials = {}
    /\ now = 0
    /\ deploy = NotRun
    /\ app = AppStart

\* The metadata files a deployment of platform p may leave.
MetaFiles(p) == {CorruptMeta} \cup {JsonMeta(r) : r \in MetaRecords(p)}

\* One release: version 1 of the only content, at the deployed URL.
FirstRelease(p) == JsonMeta(MetaRecord(1, BundleUrl(p), Sha256(1)))

(* The whole flow: callers check, clients download with what they were
   given or with what they made up, deployments go on. *)
Next ==
    \/ \E c \in Clients, a \in {NoHeader, ValidCredential},
          h \in {NoHeader, "ios"} : Check(c, a, h, 0)
    \/ \E c \in Clients, q \in {<<>>, ValidQuery} :
          CdnRequest(c, "GET", BundlePath("android") \o q)
    \/ Download
    \/ Retry
    \/ \E path \in PathSamples : Replay(path)
    \/ \E p \in Platforms : PutBundle(p, 1)
    \/ \E p \in Platforms :
          \E u \in FileUrls(p) :
             WriteMetadata(p, JsonMeta(MetaRecord(1, u, Sha256(1))))

Spec == Init /\ [][Next]_vars

(* The CDN alone, under every request of the samples. *)
NextCdn ==
    \/ \E t \in Targets : CdnRequest("browser", "GET", t)
    \/ \E m \in Methods \ {"GET"}, path \in PathSamples,
          q \in {<<>>, ValidQuery} : CdnRequest("browser", m, path \o q)
    \/ \E p \in Platforms : PutBundle(p, 1)
    \/ \E p \in Platforms, corrupt \in BOOLEAN :
          WriteMetadata(p, IF corrupt THEN CorruptMeta ELSE FirstRelease(p))

SpecCdn == Init /\ [][NextCdn]_vars

(* The API alone, under every /check of the samples, every metadata file of
   android and two of ios. *)
NextApi ==
    \/ \E a \in AuthHeaders, h \in PlatformHeaders, i \in InstalledVersions :
          Check("app", a, h, i)
    \/ \E m \in MetaFiles("android") : WriteMetadata("android", m)
    \/ \E m \in {CorruptMeta, FirstRelease("ios")} : WriteMetadata("ios", m)

SpecApi == Init /\ [][NextApi]_vars

(* A client that holds a signed URL while time passes. *)
NextExpiry ==
    \/ \E c \in Clients : Check(c, ValidCredential, NoHeader, 0)
    \/ Download
    \/ PutBundle("android", 1)
    \/ WriteMetadata("android", FirstRelease("android"))
    \/ Tick

SpecExpiry == Init /\ [][NextExpiry]_vars

(* Deployment runs, one after another, while the app's account checks and
   downloads. *)
NextDeploy ==
    \/ \E v \in 0..MaxVersion : DeployStart(v)
    \/ \E c \in Contents : ZipBundle(c)
    \/ CalculateHash
    \/ MoveToCdn
    \/ OpenMetadata
    \/ UpdateMetadata
    \/ DeployFailed
    \/ Check("app", ValidCredential, NoHeader, 0)
    \/ CdnRequest("app", "GET", BundlePath("android") \o ValidQuery)

SpecDeploy == Init /\ [][NextDeploy]_vars

(* The app's button, over a store that releases come into. *)
NextApp ==
    \/ checkUpdate
    \/ \E outcome \in {"update", "null", "throw"} : checkForUpdate(outcome)
    \/ \E outcome \in {"ok", "throw"} : updateBundle(outcome)
    \/ reload
    \/ \E c \in Contents : PutBundle("android", c)
    \/ \E c \in Contents :
          WriteMetadata("android",
                        JsonMeta(MetaRecord(1, BundleUrl("android"), Sha256(c))))

SpecApp == Init /\ [][NextApp]_vars

(* ------------------------------ claims -------------------------------- *)

\* The last exchange was a request to the CDN for a path below /files.
UnderFiles ==
    /\ last.server = "cdn"
    /\ Segments(PathOf(last.target)) # <<>>
    /\ Head(Segments(PathOf(last.target))) = "files"

\* The token parameter of the last CDN request is exactly the expected one.
ExactToken == QueryParam(last.target, "token") = Str(<<SecureSignature>>)

ForbiddenBody == TextBody("Forbidden: Invalid Signature")

\* C1 as stated: every request below /files whose token parameter is missing
\* or is not exactly the expected token is answered 403 and is served no file
\* bytes.
C1_EveryRequestDenied ==
    (UnderFiles /\ ~ExactToken) =>
        (last.status = 403 /\ last.cdn.kind # "bytes")

\* C1 as amended: such a request is served no file bytes; it is answered 403
\* unless it is a CORS preflight (OPTIONS), which cors() answers 204 with an
\* empty body before the guard runs.
C1_GateDenial ==
    (UnderFiles /\ ~ExactToken) =>
        /\ last.cdn.kind # "bytes"
        /\ last.method # "OPTIONS" =>
              (last.status = 403 /\ last.cdn = ForbiddenBody)
        /\ last.method = "OPTIONS" =>
              (last.status = 204 /\ last.cdn = NoBody)

\* A request for a bundle that is in storage, with the token given twice, was
\* refused.
C1_Witness ==
    /\ UnderFiles
    /\ last.method = "GET"
    /\ QueryParam(last.target, "token").kind = "array"
    /\ PathOf(last.target) = BundlePath("android")
    /\ bundles["android"] # 0
    /\ last.status = 403

\* C2: a response that carries stored bytes comes from a request below /files
\* that secureGuard saw before express.static did and let through; a request
\* that names a directory is never answered with stored bytes.
C2_NoBypass ==
    /\ last.cdn.kind = "bytes" =>
          /\ UnderFiles
          /\ ExactToken
          /\ last.trace = <<"cors", "secureGuard", "static">>
    /\ (UnderFiles /\ Len(Segments(PathOf(last.target))) < 3) =>
          last.cdn.kind # "bytes"

\* A bundle was served.
C2_Witness ==
    /\ last.status = 200
    /\ last.cdn.kind = "bytes"
    /\ last.cdn.obj = <<"android", "update.zip">>

\* C3 as stated: every download the CDN serves goes to a client to whom
\* /check has returned the signed URL before.
C3_AuthenticatedBeforeDownload ==
    (last.server = "cdn" /\ last.cdn.kind = "bytes") =>
        last.client \in issuedTo

\* C4: a /check whose Authorization header is missing or is not the valid
\* credential is answered 401 {error: "Unauthorized"}; its handler makes no
\* file-system call on the metadata and returns no record and no signed URL.
C4_IssuerAuthentication ==
    (last.server = "api" /\ last.auth # ValidCredential) =>
        /\ last.status = 401
        /\ last.api = ErrorJson("Unauthorized")
        /\ last.reads = {}

\* A /check with a wrong credential was answered while the platform asked for
\* has a metadata record.
C4_Witness ==
    /\ last.server = "api"
    /\ last.auth = "Bearer someone-else"
    /\ MetaAt(platformOf(last.platformHdr)).state = "json"
    /\ last.status = 401

\* C5 as stated: the token of a signed URL issued for one path, presented for
\* another path, is refused.
C5_NoCrossResourceReplay == last.via = "replay" => last.status = 403

\* C6 as stated: whatever lifetime a grant has, a download that presents it
\* after that lifetime has passed is refused.
C6_GrantsExpire ==
    \A ttl \in 1..MaxTTL :
        (last.via = "signedUrl" /\ last.at > last.grantAt + ttl) =>
            last.status = 403

\* C7 as stated: when the signed URL that /check returned is requested
\* unchanged while the bundle it names is in storage, the answer is 200 with
\* the bytes of that bundle.
C7_EndToEnd ==
    [][ ( /\ last' # last
          /\ last'.via = "signedUrl"
          /\ Len(last'.grantFor) = 3
          /\ last'.grantFor[2] \in Platforms
          /\ bundles[last'.grantFor[2]] # 0 )
        => ( /\ last'.status = 200
             /\ last'.cdn.kind = "bytes"
             /\ last'.cdn.data = bundles[last'.grantFor[2]] ) ]_vars

\* C8: an authenticated /check for a platform that has no metadata file is
\* answered 200 with {update: false}.
C8_AbsentMetadata ==
    [][ ( /\ last' # last
          /\ last'.server = "api"
          /\ last'.auth = ValidCredential
          /\ MetaAt(platformOf(last'.platformHdr)).state = "absent" )
        => ( /\ last'.status = 200
             /\ last'.api = NoUpdateJson ) ]_vars

\* An authenticated /check for ios was answered while only android has a
\* metadata record.
C8_Witness ==
    /\ last.server = "api"
    /\ last.auth = ValidCredential
    /\ last.platformHdr = "ios"
    /\ metadata["ios"].state = "absent"
    /\ metadata["android"].state = "json"
    /\ last.api = NoUpdateJson

\* C9 as stated: an authenticated /check that states an installed version is
\* answered with update metadata only when that version is below the
\* metadata's version.
C9_UpToDate ==
    ( /\ last.server = "api"
      /\ last.auth = ValidCredential
      /\ last.installed # 0
      /\ last.api.json = "metadata" )
    => last.installed < last.api.rec.version

\* C10: every refused GET below /files is answered 403 with the one body
\* "Forbidden: Invalid Signature".
C10_UniformDenial ==
    \A d \in denials : d = [status |-> 403, body |-> ForbiddenBody]

\* Requests without a token and with a wrong token have been refused, the
\* last one for a file that is not in storage, after one for a file that is.
C10_Witness ==
    /\ denials # {}
    /\ UnderFiles
    /\ last.method = "GET"
    /\ PathOf(last.target) = <<"/", "files", "/", "android", "/", "nothing.zip">>
    /\ QueryParam(last.target, "token") = Str(<<"guess">>)
    /\ bundles["android"] # 0

\* The storage object that the fileUrl of a metadata record names.
ObjectOf(rec) == Tail(Segments(PathOf(TargetOf(rec.fileUrl))))

\* C11: in every state in which metadata.json of a platform holds a record
\* (so that /check answers with it), the record's fileUrl names a file in
\* storage and the record's fileHash is the SHA-256 of that file's bytes.
C11_MetadataMatchesStore ==
    \A p \in Platforms :
        metadata[p].state = "json" =>
            /\ IsFile(ObjectOf(metadata[p].rec))
            /\ metadata[p].rec.fileHash =
                   Sha256(FileBody(ObjectOf(metadata[p].rec)).data)

\* Exchange x was a GET of path carrying exactly the expected token.
GrantedGet(x, path) ==
    /\ x.server = "cdn"
    /\ x.method = "GET"
    /\ PathOf(x.target) = path
    /\ QueryParam(x.target, "token") = Str(<<SecureSignature>>)

\* C12: a download of the android bundle with a valid grant, made while the
\* stored bytes do not have the hash that metadata.json declares, is answered
\* 500 and not with the stored bytes.
C12_IntegrityFaultNotServed ==
    [][ ( /\ last' # last
          /\ GrantedGet(last', BundlePath("android"))
          /\ metadata["android"].state = "json"
          /\ bundles["android"] # 0
          /\ metadata["android"].rec.fileHash # Sha256(bundles["android"]) )
        => (last'.status = 500 /\ last'.cdn.kind # "bytes") ]_vars

C14_StoreFailureIs500 ==
    [][ ( /\ last' # last
          /\ last'.server = "api"
          /\ last'.auth = ValidCredential
          /\ MetaAt(platformOf(last'.platformHdr)).state = "corrupt" )
        => /\ last'.status = 500
           /\ last'.api = ErrorJson("Internal Server Error")
           /\ last'.api.rec = NoRecord
           /\ issuedTo' = issuedTo ]_vars

C14_Witness ==
    /\ last.server = "api"
    /\ last.auth = ValidCredential
    /\ last.platformHdr = "ios"
    /\ last.status = 500
    /\ last.api.json = "error"
    /\ last.reads = {"existsSync", "readFileSync"}
    /\ metadata["ios"] = CorruptMeta
    /\ metadata["android"].state = "json"

\* The answer to a /check that nothing ran before or beside: a function of
\* the request's credential and of the metadata.json m of its platform.
AloneResponse(auth, m) ==
    IF auth # ValidCredential
    THEN [status |-> 401, api |-> ErrorJson("Unauthorized")]
    ELSE CASE m.state = "absent" -> [status |-> 200, api |-> NoUpdateJson]
           [] m.state = "corrupt" ->
                 [status |-> 500, api |-> ErrorJson("Internal Server Error")]
           [] m.state = "json" ->
                 [status |-> 200,
                  api |-> MetadataJson(
                      [m.rec EXCEPT !.fileUrl =
                          @ \o <<"?", "token", "=", "secure-signature">>])]

\* C15: a /check leaves the metadata, the bundles and the deployment as they
\* were, and its answer is the one the same request gets when run alone on
\* the current metadata, whoever called before and whatever was answered or
\* denied before.
C15_IssuerNonInterference ==
    [][ (last' # last /\ last'.server = "api")
        => /\ UNCHANGED <<metadata, bundles, deploy>>
           /\ [status |-> last'.status, api |-> last'.api] =
                  AloneResponse(last'.auth,
                                MetaAt(platformOf(last'.platformHdr))) ]_vars

\* A second caller is answered with the signed URL after the first one was,
\* and after a download was refused.
C15_Witness ==
    /\ last.server = "api"
    /\ last.client = "browser"
    /\ last.api.json = "metadata"
    /\ issuedTo = Clients
    /\ denials # {}

\* C16: every GET of the android bundle that carries the valid token while
\* the bundle is in storage is served the bundle, whatever was served or
\* denied before: the first presentation, the same request made again, and
\* the same token presented by another client.
C16_GrantsNotSingleUse ==
    [][ ( /\ last' # last
          /\ GrantedGet(last', BundlePath("android"))
          /\ bundles["android"] # 0 )
        => /\ last'.status = 200
           /\ last'.cdn.kind = "bytes"
           /\ last'.cdn.data = bundles["android"] ]_vars

\* The request that was served is made again after a denial, and served.
C16_Witness ==
    /\ GrantedGet(last, BundlePath("android"))
    /\ last.via = "retry"
    /\ last.status = 200
    /\ last.cdn.kind = "bytes"
    /\ denials # {}

\* C17: a /check with the valid credential for a platform whose metadata.json
\* holds a record is answered 200 with every field of the stored record at
\* its stored value, except fileUrl, which is the stored fileUrl followed by
\* "?token=secure-signature"; metadata.json is left as it was.
C17_DecoratedMetadata ==
    [][ ( /\ last' # last
          /\ last'.server = "api"
          /\ last'.auth = ValidCredential
          /\ MetaAt(platformOf(last'.platformHdr)).state = "json" )
        => LET stored == MetaAt(platformOf(last'.platformHdr)).rec
               sent == last'.api.rec
           IN  /\ last'.status = 200
               /\ last'.api.json = "metadata"
               /\ DOMAIN sent = DOMAIN stored
               /\ \A f \in DOMAIN stored \ {"fileUrl"} : sent[f] = stored[f]
               /\ sent.fileUrl =
                      stored.fileUrl \o <<"?", "token", "=", "secure-signature">>
               /\ metadata' = metadata ]_vars

C17_Witness ==
    /\ last.server = "api"
    /\ last.api.json = "metadata"
    /\ last.api.rec.id = <<"v", 2>>
    /\ last.api.rec.fileHash = Sha256(2)
    /\ last.api.rec.fileUrl = BundleUrl("android") \o ValidQuery
    /\ metadata["android"] =
           JsonMeta(MetaRecord(2, BundleUrl("android"), Sha256(2)))

\* C18: HotUpdater.reload is called only in a state in which the dialog is
\* up, and the dialog is up only when the checkUpdate call that put it up got
\* an update from checkForUpdate and completed updateBundle for it; so reload
\* is never called after a check that found nothing, a check that failed or
\* a download that failed.
C18_ReloadOnlyAfterApply ==
    [][ /\ app'.reloads # app.reloads
            => (app.alert /\ app.applied /\ app.update # NoRecord
                          /\ app.pc = "idle" /\ ~app.loading)
        /\ app'.alert
            => (app'.applied /\ app'.update # NoRecord) ]_vars

\* The app has restarted after an update whose bytes it downloaded.
C18_Witness ==
    /\ app.reloads = 1
    /\ app.status = "Idle"
    /\ last.server = "cdn"
    /\ last.via = "updateBundle"
    /\ last.status = 200

\* C19: a run of deploy.js leaves metadata.json as it found it until its copy
\* of the zip into the CDN directory has succeeded; a run that failed has
\* exited with code 1 and has left metadata.json as it found it; a run that
\* completed has written the SHA-256 of the zip it copied as fileHash and its
\* command-line argument as version.
C19_DeployOrderAndFailure ==
    /\ deploy.pc \in {"bundle", "zipped", "hashed"}
           => metadata["android"] = deploy.before
    /\ deploy.pc = "failed"
           => (deploy.exit = 1 /\ metadata["android"] = deploy.before)
    /\ deploy.pc = "done"
           => /\ deploy.exit = 0
              /\ bundles["android"] = deploy.zip
              /\ metadata["android"] =
                     JsonMeta(MetaRecord(deploy.version, BundleUrl("android"),
                                         Sha256(bundles["android"])))

\* The record as /check sends it.
Signed(rec) ==
    [rec EXCEPT !.fileUrl = @ \o <<"?", "token", "=", "secure-signature">>]

\* C20: a /check for android with the valid credential, made while a run of
\* deploy.js that found a release in metadata.json is in progress, is
\* answered 200 with the whole record of that release or the whole record of
\* the release being deployed, each with its signed URL.
C20_CheckDuringDeploy ==
    [][ ( /\ last' # last
          /\ last'.server = "api"
          /\ last'.auth = ValidCredential
          /\ platformOf(last'.platformHdr) = "android"
          /\ deploy.pc \in Running
          /\ deploy.before.state = "json" )
        => /\ last'.status = 200
           /\ last'.api.json = "metadata"
           /\ \/ last'.api.rec = Signed(deploy.before.rec)
              \/ last'.api.rec =
                     Signed(MetaRecord(deploy.version, BundleUrl("android"),
                                       Sha256(deploy.zip))) ]_vars

\* The metadata.json of the platform that a header names: the record of the
\* platform of that name (android without a header), none when no platform
\* has that name.
NamedRecord(hdr) ==
    IF platformOf(hdr) \in Platforms
    THEN metadata[platformOf(hdr)] ELSE AbsentMeta

\* C21: a /check with the valid credential is answered from the metadata.json
\* of the platform its x-app-platform header names (android without one), and
\* from no other: {update: false} when that platform has no record, whatever
\* other platforms hold, and never fields of another platform's record.
C21_PlatformSelection ==
    [][ ( /\ last' # last
          /\ last'.server = "api"
          /\ last'.auth = ValidCredential )
        => [status |-> last'.status, api |-> last'.api] =
               AloneResponse(last'.auth, NamedRecord(last'.platformHdr)) ]_vars

\* The status texts checkUpdate can end with ("Error" stands for 'Error: '
\* followed by the message).
FinalStatuses ==
    {"Update applied. Restarting...", "No update available on server.", "Error"}

=============================================================================
